---- MODULE Spec2Model ----
(***************************************************************************)
(* Voice chat mesh of the CoCode client (components/chats/VoiceChat.tsx). *)
(* Every participant of the room runs one VoiceChat component.  The state *)
(* of a component is its refs and its React state.  Heap objects are kept  *)
(* where the program reaches them: the entry of a peer (transport, audio   *)
(* element, mute flag) in peersRef, a transport that only a suspended      *)
(* handler still holds in that handler's task, and the transports and      *)
(* streams nothing references any more, which stay open, in orphans and    *)
(* leaked.  net holds the signaling messages inside the relay.             *)
(***************************************************************************)
EXTENDS Integers, FiniteSets, Sequences, Bags, TLC

\* ---------------------------------------------------------------- bounds
NumProcs == 3        \* participants
MaxPc == 3           \* RTCPeerConnection objects that are not closed
MaxOrphans == 1      \* of them, those nothing references any more
MaxStreams == 2      \* live MediaStreams of one participant
MaxJoining == 1      \* joinVoice calls of one participant awaiting the device
MaxInFlight == 1     \* copies of one signaling message inside the relay
MaxNet == 2          \* signaling messages inside the relay
MaxTasks == 1        \* handlers suspended at an await

Procs == 1..NumProcs

VARIABLES
    joined,          \* [Procs -> BOOLEAN]   useState(false)
    localMuted,      \* [Procs -> BOOLEAN]   useState(false)
    remoteMutedMap,  \* [Procs -> [Procs -> {"absent", "false", "true"}]]
    localStreamRef,  \* [Procs -> {"null", "live"}]
    trackEnabled,    \* [Procs -> BOOLEAN]   track.enabled of the held stream
    leaked,          \* [Procs -> Nat]  live streams localStreamRef lost
    peersRef,        \* [Procs -> [Procs -> entry]]  the Connection Table
    orphans,         \* bag of open transports nothing references
    joining,         \* [Procs -> Nat]  joinVoice calls suspended at getUserMedia
    tasks,           \* bag of suspended handleOffer / membership-effect calls
    net,             \* [Msgs -> Nat]   messages inside the relay
    room,            \* participants the membership service lists (users)
    clients,         \* those of them whose component is modelled; the
                     \*   others are remote peers, known by what they emit
    dirty,           \* [Procs -> BOOLEAN]  joined, the render and the effect run
                     \*   that follow a change of joined or users are due
    ev               \* the event the last step handled, and its outcome

vars == <<joined, localMuted, remoteMutedMap, localStreamRef, trackEnabled,
          leaked, peersRef, orphans, joining, tasks, net, room, clients, dirty,
          ev>>

MsgTypes == {"offer", "answer", "ice", "left"}
Msgs == {m \in [type : MsgTypes, from : Procs, to : Procs] : m.from # m.to}
Msg(t, f, g) == [type |-> t, from |-> f, to |-> g]
Event(o, p, q, r) == [op |-> o, p |-> p, q |-> q, out |-> r]

\* ------------------------------------------------------------ heap objects
\* PeerEntry {pc, audioEl, muted}: sig is pc.signalingState, tracks says
\* which stream the senders of pc carry ("held": the stream localStreamRef
\* holds; "leaked": a live stream it lost; "ended": stopped tracks), inDom
\* that audioEl is a child of the container.  NoPc is the missing key.
NoPc ==
    [sig |-> "none", tracks |-> "none", inDom |-> FALSE, muted |-> FALSE,
     elMuted |-> FALSE]

\* new RTCPeerConnection(STUN_CONFIG) and its <audio> element, lines 31-48
NewPc ==
    [sig |-> "new", tracks |-> "none", inDom |-> TRUE, muted |-> FALSE,
     elMuted |-> FALSE]

Orphan(p, q, pc) == [owner |-> p, remote |-> q, sig |-> pc.sig]
Task(k, p, q, at, reg, pc) ==
    [k |-> k, p |-> p, q |-> q, at |-> at, reg |-> reg, pc |-> pc]

One(x) == SetToBag({x})
BagFilter(B, Keep(_)) == [x \in {y \in BagToSet(B) : Keep(y)} |-> B[x]]
BagMap(B, F(_)) ==
    LET S == BagToSet(B)
        T == {F(x) : x \in S}
        RECURSIVE Count(_, _)
        Count(y, R) == IF R = {} THEN 0
                       ELSE LET x == CHOOSE z \in R : TRUE IN
                            (IF F(x) = y THEN B[x] ELSE 0) + Count(y, R \ {x})
    IN [y \in T |-> Count(y, S)]

\* the part of the state createPeerConnection and cleanupPeer work on
Table == [peers |-> peersRef, rmm |-> remoteMutedMap, tasks |-> tasks,
          orphans |-> orphans]

\* open transports: the entries, those only a task holds, the orphans
Entries(T) == {pq \in Procs \X Procs : T.peers[pq[1]][pq[2]] # NoPc}
OpenPcs(T) ==
    Cardinality(Entries(T)) + BagCardinality(T.orphans)
      + BagCardinality(BagFilter(T.tasks, LAMBDA t : ~t.reg))

Fits(T) ==
    /\ OpenPcs(T) <= MaxPc
    /\ BagCardinality(T.orphans) <= MaxOrphans
    /\ BagCardinality(T.tasks) <= MaxTasks

SetTable(T) ==
    /\ Fits(T)
    /\ peersRef' = T.peers
    /\ remoteMutedMap' = T.rmm
    /\ tasks' = T.tasks
    /\ orphans' = T.orphans

Keys(T, p) == {q \in Procs : T.peers[p][q] # NoPc}
MinOf(S) == CHOOSE i \in S : \A j \in S : i <= j

\* ------------------------------------------------------------ cleanupPeer
\* pc.close() abandons every operation pending on the transport (its promise
\* never settles), so the handler suspended on this transport never resumes.
cleanupPeerClearsMutes(T, p, socketId) ==
    LET entry == T.peers[p][socketId] IN
    IF entry = NoPc THEN T
    ELSE [T EXCEPT !.peers[p][socketId] = NoPc,
                   !.rmm[p] = [q \in Procs |-> "absent"],
                   !.tasks = BagFilter(@, LAMBDA t :
                                ~(t.reg /\ t.p = p /\ t.q = socketId))]

cleanupPeer(T, p, socketId) ==
    LET entry == T.peers[p][socketId] IN
    IF entry = NoPc THEN T
    ELSE [T EXCEPT !.peers[p][socketId] = NoPc,
                   !.rmm[p][socketId] = "absent",
                   !.tasks = BagFilter(@, LAMBDA t :
                                ~(t.reg /\ t.p = p /\ t.q = socketId))]

RECURSIVE cleanupAll(_, _, _)
cleanupAll(T, p, ids) ==
    IF ids = {} THEN T
    ELSE LET id == MinOf(ids) IN cleanupAll(cleanupPeer(T, p, id), p, ids \ {id})

\* ------------------------------------------------------------------ Init
Mounted ==
    /\ joined = [p \in Procs |-> FALSE]
    /\ localMuted = [p \in Procs |-> FALSE]
    /\ remoteMutedMap = [p \in Procs |-> [q \in Procs |-> "absent"]]
    /\ localStreamRef = [p \in Procs |-> "null"]
    /\ trackEnabled = [p \in Procs |-> TRUE]
    /\ leaked = [p \in Procs |-> 0]
    /\ peersRef = [p \in Procs |-> [q \in Procs |-> NoPc]]
    /\ orphans = EmptyBag
    /\ joining = [p \in Procs |-> 0]
    /\ tasks = EmptyBag
    /\ net = [m \in Msgs |-> 0]
    /\ dirty = [p \in Procs |-> FALSE]
    /\ ev = Event("init", 0, 0, "ok")

\* a room of two participants, both running the component
Init ==
    /\ Mounted
    /\ room = {1, 2}
    /\ clients = {1, 2}

\* participant 1 runs the component in a room with every other participant
\* as a remote peer
InitLocal ==
    /\ Mounted
    /\ room = Procs
    /\ clients = {1}

\* ------------------------------------------------------- the local stream
\* The tracks of p's transports that carried stream `from` now count as `to`
Relabel(T, p, from, to) ==
    LET Re(pc) == IF pc.tracks = from THEN [pc EXCEPT !.tracks = to] ELSE pc IN
    [T EXCEPT !.peers[p] = [q \in Procs |-> Re(@[q])],
              !.tasks = BagMap(@, LAMBDA t :
                           IF t.p = p THEN [t EXCEPT !.pc = Re(@)] ELSE t)]

CanAcquire(p) ==
    leaked[p] + (IF localStreamRef[p] = "live" THEN 1 ELSE 0) < MaxStreams

\* localStreamRef.current = await getUserMedia(...): the new stream replaces
\* whatever the ref held; a replaced stream stays live
Acquired(p) ==
    /\ localStreamRef' = [localStreamRef EXCEPT ![p] = "live"]
    /\ trackEnabled' = [trackEnabled EXCEPT ![p] = TRUE]
    /\ leaked' = [leaked EXCEPT ![p] = IF localStreamRef[p] = "live" THEN @ + 1 ELSE @]

Replaced(T, p) ==
    IF localStreamRef[p] = "live" THEN Relabel(T, p, "held", "leaked") ELSE T

\* ------------------------------------------------------------- joinVoice
JoinVoice(p) ==
    /\ p \in clients
    /\ IF joined[p]
       THEN /\ ev' = Event("join", p, 0, "noop")
            /\ UNCHANGED joining
       ELSE /\ joining[p] < MaxJoining
            /\ joining' = [joining EXCEPT ![p] = @ + 1]
            /\ ev' = Event("join", p, 0, "request")
    /\ UNCHANGED <<joined, localMuted, remoteMutedMap, localStreamRef,
                   trackEnabled, leaked, peersRef, orphans, tasks, net, room,
                   clients, dirty>>

\* getUserMedia resolves inside joinVoice, lines 167-169
joinGranted(p) ==
    /\ Acquired(p)
    /\ SetTable(Replaced(Table, p))
    /\ joined' = [joined EXCEPT ![p] = TRUE]
    /\ localMuted' = [localMuted EXCEPT ![p] = FALSE]
    /\ dirty' = [dirty EXCEPT ![p] = @ \/ ~joined[p]]

JoinGranted(p) ==
    /\ joining[p] > 0
    /\ CanAcquire(p)
    /\ joinGranted(p)
    /\ joining' = [joining EXCEPT ![p] = @ - 1]
    /\ ev' = Event("joinResumed", p, 0, "ok")
    /\ UNCHANGED <<net, room, clients>>

joinDeniedJoins(p) ==
    /\ joined' = [joined EXCEPT ![p] = TRUE]
    /\ localMuted' = [localMuted EXCEPT ![p] = FALSE]
    /\ UNCHANGED <<localStreamRef, trackEnabled, leaked, dirty,
                   remoteMutedMap, peersRef, orphans, tasks>>

\* getUserMedia rejects inside joinVoice: the catch logs and returns
joinDenied(p) ==
    UNCHANGED <<joined, localMuted, localStreamRef, trackEnabled, leaked, dirty,
                remoteMutedMap, peersRef, orphans, tasks>>

JoinDenied(p) ==
    /\ joining[p] > 0
    /\ joinDenied(p)
    /\ joining' = [joining EXCEPT ![p] = @ - 1]
    /\ ev' = Event("joinResumed", p, 0, "err")
    /\ UNCHANGED <<net, room, clients>>

leaveVoiceStable(T, p) ==
    LET T0 == IF localStreamRef[p] = "live" THEN Relabel(T, p, "held", "ended")
              ELSE T
    IN cleanupAll(T0, p, {q \in Keys(T0, p) : T0.peers[p][q].sig = "stable"})

\* ------------------------------------------------------------ leaveVoice
leaveVoice(T, p) ==
    LET T0 == IF localStreamRef[p] = "live" THEN Relabel(T, p, "held", "ended")
              ELSE T
    IN cleanupAll(T0, p, Keys(T0, p))

LeaveVoice(p) ==
    /\ p \in clients
    /\ joined' = [joined EXCEPT ![p] = FALSE]
    /\ dirty' = [dirty EXCEPT ![p] = FALSE]
    /\ localStreamRef' = [localStreamRef EXCEPT ![p] = "null"]
    /\ trackEnabled' = [trackEnabled EXCEPT ![p] = TRUE]
    /\ SetTable(leaveVoice(Table, p))
    /\ ev' = Event("leave", p, 0,
                   IF Keys(Table, p) # {} THEN "torn"
                   ELSE IF localStreamRef[p] = "live" THEN "ok" ELSE "noop")
    /\ UNCHANGED <<localMuted, leaked, joining, net, room, clients>>

\* -------------------------------------------------- the outbound path
\* socket.emit: the relay forwards to the target, or drops the message when
\* the target has left the room
\* the messages of S the relay holds
Sum(f, S) == Cardinality({mi \in S \X (1..MaxInFlight) : mi[2] <= f[mi[1]]})
InFlight == Sum(net, Msgs)
CanSend(m) == m.to \in clients => net[m] < MaxInFlight /\ InFlight < MaxNet
Sent(N, m) == IF m.to \in clients THEN [N EXCEPT ![m] = @ + 1] ELSE N
\* the relay delivers m: a message it holds, or one that a remote peer emits
\* (that the membership service emits when the remote peer disconnects) now
Arrived(m) == net[m] > 0 \/ m.from \in room \ clients
Received(N, m) == IF N[m] > 0 THEN [N EXCEPT ![m] = @ - 1] ELSE N

\* -------------------------------------------------- createPeerConnection
\* Lines 61-63: peersRef.current[q] = {pc, audioEl, muted: false} replaces
\* whatever entry the key had.  The replaced transport is not closed: the
\* handler that is still negotiating it keeps it, otherwise nothing does.
register(T, p, q, pc) ==
    LET old == T.peers[p][q]
        Holds(t) == t.reg /\ t.p = p /\ t.q = q
        T1 == IF old = NoPc THEN T
              ELSE IF \E t \in BagToSet(T.tasks) : Holds(t)
                   THEN [T EXCEPT !.tasks = BagMap(@, LAMBDA t :
                            IF Holds(t) THEN [t EXCEPT !.reg = FALSE, !.pc = old]
                            ELSE t)]
                   ELSE [T EXCEPT !.orphans = @ (+) One(Orphan(p, q, old))]
    IN [T1 EXCEPT !.peers[p][q] = pc, !.rmm[p][q] = "false"]

FirstAwait(k) == IF k = "offer" THEN "createOffer" ELSE "setRemote"

createPeerConnectionEager(T, p, q, k) ==
    IF localStreamRef[p] = "live"
    THEN [register(T, p, q, [NewPc EXCEPT !.tracks = "held"])
             EXCEPT !.tasks = @ (+) One(Task(k, p, q, FirstAwait(k), TRUE, NoPc))]
    ELSE [register(T, p, q, NewPc)
             EXCEPT !.tasks = @ (+) One(Task(k, p, q, "gum", TRUE, NoPc))]

\* The synchronous part of createPeerConnection(q) called by p from the
\* membership effect (k = "offer") or from handleOffer (k = "answer"): with a
\* stream held it runs to the caller's first await, without one it suspends
\* at getUserMedia with the transport created and not registered.
createPeerConnection(T, p, q, k) ==
    IF localStreamRef[p] = "live"
    THEN [register(T, p, q, [NewPc EXCEPT !.tracks = "held"])
             EXCEPT !.tasks = @ (+) One(Task(k, p, q, FirstAwait(k), TRUE, NoPc))]
    ELSE [T EXCEPT !.tasks = @ (+) One(Task(k, p, q, "gum", FALSE, NewPc))]

\* ----------------------------------------------------- membership effect
\* users.forEach: every other user without an entry gets a transport
Missing(T, p) == {u \in room \ {p} : T.peers[p][u] = NoPc}

RECURSIVE offerAll(_, _, _)
offerAll(T, p, us) ==
    IF us = {} THEN T
    ELSE LET u == MinOf(us) IN
         offerAll(createPeerConnection(T, p, u, "offer"), p, us \ {u})

membershipEffect(T, p) ==
    IF joined[p] THEN offerAll(T, p, Missing(T, p)) ELSE T

\* the render that follows setJoined(true) is committed: the effect runs
MembershipEffect(p) ==
    /\ p \in clients
    /\ dirty[p]
    /\ dirty' = [dirty EXCEPT ![p] = FALSE]
    /\ SetTable(membershipEffect(Table, p))
    /\ ev' = Event("effect", p, 0, "ok")
    /\ UNCHANGED <<joined, localMuted, localStreamRef, trackEnabled, leaked,
                   joining, net, room, clients>>

\* the membership service publishes the users list again (a user arrived or
\* changed status): the component renders and the effect runs
MembershipChange(p) ==
    /\ p \in clients
    /\ dirty' = [dirty EXCEPT ![p] = FALSE]
    /\ SetTable(membershipEffect(Table, p))
    /\ ev' = Event("users", p, 0, IF joined[p] THEN "ok" ELSE "noop")
    /\ UNCHANGED <<joined, localMuted, localStreamRef, trackEnabled, leaked,
                   joining, net, room, clients>>

\* ------------------------------------------------------------ handleOffer
HandleOffer(p, q) ==
    /\ p \in clients
    /\ Arrived(Msg("offer", q, p))
    /\ net' = Received(net, Msg("offer", q, p))
    /\ SetTable(createPeerConnection(Table, p, q, "answer"))
    /\ ev' = Event("offer", p, q, "ok")
    /\ UNCHANGED <<joined, localMuted, localStreamRef, trackEnabled, leaked,
                   joining, room, clients, dirty>>

\* ------------------------------------------- continuations of the handlers
\* getUserMedia resolves inside createPeerConnection, lines 53 and 59-64
built(T, t) ==
    LET T0 == [T EXCEPT !.tasks = @ (-) One(t)]
        T1 == register(Replaced(T0, t.p), t.p, t.q, [t.pc EXCEPT !.tracks = "held"])
    IN [T1 EXCEPT !.tasks = @ (+) One(Task(t.k, t.p, t.q, FirstAwait(t.k), TRUE, NoPc))]

GumGranted(t) ==
    /\ t.at = "gum"
    /\ CanAcquire(t.p)
    /\ Acquired(t.p)
    /\ SetTable(built(Table, t))
    /\ ev' = Event("built", t.p, t.q, "ok")
    /\ UNCHANGED <<joined, localMuted, joining, net, room, clients, dirty>>

\* getUserMedia rejects inside createPeerConnection: the transport and its
\* audio element were created and stay; the error reaches the caller's catch,
\* which logs; the membership effect also calls cleanupPeer
buildFailed(T, t) ==
    LET T1 == [T EXCEPT !.tasks = @ (-) One(t),
                        !.orphans = @ (+) One(Orphan(t.p, t.q, t.pc))]
    IN IF t.k = "offer" THEN cleanupPeer(T1, t.p, t.q) ELSE T1

GumDenied(t) ==
    /\ t.at = "gum"
    /\ SetTable(buildFailed(Table, t))
    /\ ev' = Event("built", t.p, t.q, "err")
    /\ UNCHANGED <<joined, localMuted, localStreamRef, trackEnabled, leaked,
                   joining, net, room, clients, dirty>>

\* the transport handler t negotiates
TaskPc(T, t) == IF t.reg THEN T.peers[t.p][t.q] ELSE t.pc

\* handler t resumes with its transport now pc and suspends at `at`, or
\* returns (at = "done"); a transport the table no longer holds is then
\* referenced by nothing
Resumed(T, t, pc, at) ==
    LET T0 == [T EXCEPT !.tasks = @ (-) One(t)]
        T1 == IF t.reg THEN [T0 EXCEPT !.peers[t.p][t.q] = pc]
              ELSE IF at = "done"
                   THEN [T0 EXCEPT !.orphans = @ (+) One(Orphan(t.p, t.q, pc))]
                   ELSE T0
    IN IF at = "done" THEN T1
       ELSE [T1 EXCEPT !.tasks = @ (+)
                One(Task(t.k, t.p, t.q, at, t.reg, IF t.reg THEN NoPc ELSE pc))]

\* createOffer / createAnswer resolve: the handler calls setLocalDescription
Created(t) ==
    /\ t.at \in {"createOffer", "createAnswer"}
    /\ SetTable(Resumed(Table, t, TaskPc(Table, t), "setLocal"))
    /\ ev' = Event("created", t.p, t.q, "ok")
    /\ UNCHANGED <<joined, localMuted, localStreamRef, trackEnabled, leaked,
                   joining, net, room, clients, dirty>>

\* setRemoteDescription(offer) resolves in handleOffer (ontrack binds the
\* remote stream to the audio element); the handler calls createAnswer
RemoteOfferSet(t) ==
    /\ t.at = "setRemote"
    /\ SetTable(Resumed(Table, t,
                        [TaskPc(Table, t) EXCEPT !.sig = "have-remote-offer"],
                        "createAnswer"))
    /\ ev' = Event("remoteSet", t.p, t.q, "ok")
    /\ UNCHANGED <<joined, localMuted, localStreamRef, trackEnabled, leaked,
                   joining, net, room, clients, dirty>>

\* createOffer, createAnswer, setRemoteDescription or setLocalDescription
\* rejects: the handler's catch logs; the membership effect's catch also
\* calls cleanupPeer.  A transport the table no longer holds is then
\* referenced by nothing.
rejected(T, t) ==
    LET T0 == [T EXCEPT !.tasks = @ (-) One(t)]
        T1 == IF t.reg THEN T0
              ELSE [T0 EXCEPT !.orphans = @ (+) One(Orphan(t.p, t.q, t.pc))]
    IN IF t.k = "offer" THEN cleanupPeer(T1, t.p, t.q) ELSE T1

Rejected(t) ==
    /\ t.at \in {"createOffer", "createAnswer", "setRemote", "setLocal"}
    /\ SetTable(rejected(Table, t))
    /\ ev' = Event("rejected", t.p, t.q, t.k)
    /\ UNCHANGED <<joined, localMuted, localStreamRef, trackEnabled, leaked,
                   joining, net, room, clients, dirty>>

\* handleOffer with a stream held, for an offer the new transport refuses:
\* the transport is registered, setRemoteDescription rejects and the catch
\* logs
HandleOfferRejected(p, q) ==
    /\ p \in clients
    /\ localStreamRef[p] = "live"
    /\ Arrived(Msg("offer", q, p))
    /\ net' = Received(net, Msg("offer", q, p))
    /\ SetTable(rejected(createPeerConnection(Table, p, q, "answer"),
                         Task("answer", p, q, "setRemote", TRUE, NoPc)))
    /\ ev' = Event("offer", p, q, "err")
    /\ UNCHANGED <<joined, localMuted, localStreamRef, trackEnabled, leaked,
                   joining, room, clients, dirty>>

\* setLocalDescription resolves: the handler emits the offer or the answer
LocalSig(k) == IF k = "offer" THEN "have-local-offer" ELSE "stable"

LocalSet(t) ==
    /\ t.at = "setLocal"
    /\ CanSend(Msg(t.k, t.p, t.q))
    /\ SetTable(Resumed(Table, t, [TaskPc(Table, t) EXCEPT !.sig = LocalSig(t.k)],
                        "done"))
    /\ net' = Sent(net, Msg(t.k, t.p, t.q))
    /\ ev' = Event("sent", t.p, t.q, t.k)
    /\ UNCHANGED <<joined, localMuted, localStreamRef, trackEnabled, leaked,
                   joining, room, clients, dirty>>

\* pc.onicecandidate: a transport with a local description discovers a
\* candidate and emits it to the peer it was created for
HasLocal(sig) == sig \in {"have-local-offer", "stable"}
HasRemote(sig) == sig \in {"have-remote-offer", "stable"}

Gathering(p, q) ==
    \/ HasLocal(peersRef[p][q].sig)
    \/ \E o \in BagToSet(orphans) : o.owner = p /\ o.remote = q /\ HasLocal(o.sig)

OnIceCandidate(p, q) ==
    /\ p \in clients
    /\ Gathering(p, q)
    /\ CanSend(Msg("ice", p, q))
    /\ net' = Sent(net, Msg("ice", p, q))
    /\ ev' = Event("candidate", p, q, "ice")
    /\ UNCHANGED <<joined, localMuted, remoteMutedMap, localStreamRef,
                   trackEnabled, leaked, peersRef, orphans, joining, tasks, room,
                   clients, dirty>>

handleAnswerBuilds(T, p, q) ==
    LET entry == T.peers[p][q] IN
    IF entry = NoPc THEN [T EXCEPT !.peers[p][q] = NewPc, !.rmm[p][q] = "false"]
    ELSE IF entry.sig = "have-local-offer"
         THEN [T EXCEPT !.peers[p][q].sig = "stable"]
         ELSE T

handleAnswerIgnored(T, p, q) == T

\* ----------------------------------------------------------- handleAnswer
\* setRemoteDescription(answer) is accepted in have-local-offer only; in any
\* other state it rejects and the handler logs a warning
handleAnswer(T, p, q) ==
    LET entry == T.peers[p][q] IN
    IF entry = NoPc THEN T
    ELSE IF entry.sig = "have-local-offer"
         THEN [T EXCEPT !.peers[p][q].sig = "stable"]
         ELSE T

AnswerOutcome(entry) ==
    IF entry = NoPc THEN "drop"
    ELSE IF entry.sig = "have-local-offer" THEN "ok" ELSE "err"

HandleAnswer(p, q) ==
    /\ p \in clients
    /\ Arrived(Msg("answer", q, p))
    /\ net' = Received(net, Msg("answer", q, p))
    /\ SetTable(handleAnswer(Table, p, q))
    /\ ev' = Event("answer", p, q, AnswerOutcome(peersRef[p][q]))
    /\ UNCHANGED <<joined, localMuted, localStreamRef, trackEnabled, leaked,
                   joining, room, clients, dirty>>

\* -------------------------------------------------------------- handleIce
\* addIceCandidate hands the candidate to the ICE agent of the transport; it
\* rejects while the transport has no remote description.  Neither touches
\* the state of the component.
handleIce(T, p, q) == T

IceOutcome(entry) ==
    IF entry = NoPc THEN "drop"
    ELSE IF HasRemote(entry.sig) THEN "ok" ELSE "err"

HandleIce(p, q) ==
    /\ p \in clients
    /\ Arrived(Msg("ice", q, p))
    /\ net' = Received(net, Msg("ice", q, p))
    /\ SetTable(handleIce(Table, p, q))
    /\ ev' = Event("ice", p, q, IceOutcome(peersRef[p][q]))
    /\ UNCHANGED <<joined, localMuted, localStreamRef, trackEnabled, leaked,
                   joining, room, clients, dirty>>

\* --------------------------------------------------------- handleUserLeft
handleUserLeft(T, p, socketId) == cleanupPeer(T, p, socketId)

\* The relay delivers to one target in order: whatever q emitted to p
\* before it disconnected has been delivered when USER_DISCONNECTED is.
HandleUserLeft(p, q) ==
    /\ p \in clients
    /\ Arrived(Msg("left", q, p))
    /\ \A ty \in MsgTypes \ {"left"} : net[Msg(ty, q, p)] = 0
    /\ net' = Received(net, Msg("left", q, p))
    /\ SetTable(handleUserLeft(Table, p, q))
    /\ ev' = Event("left", p, q, IF peersRef[p][q] = NoPc THEN "noop" ELSE "ok")
    /\ room' = room \ {q}
    /\ UNCHANGED <<joined, localMuted, localStreamRef, trackEnabled, leaked,
                   joining, clients, dirty>>

\* -------------------------------------------------------- toggleLocalMute
toggleLocalMute(p) ==
    IF localStreamRef[p] = "null"
    THEN UNCHANGED <<trackEnabled, localMuted>>
    ELSE /\ trackEnabled' = [trackEnabled EXCEPT ![p] = ~@]
         /\ localMuted' = [localMuted EXCEPT ![p] = ~@]

ToggleLocalMute(p) ==
    /\ p \in clients
    /\ toggleLocalMute(p)
    /\ ev' = Event("localMute", p, 0,
                   IF localStreamRef[p] = "null" THEN "noop" ELSE "ok")
    /\ UNCHANGED <<joined, remoteMutedMap, localStreamRef, leaked, peersRef,
                   orphans, joining, tasks, net, room, clients, dirty>>

toggleRemoteMuteAll(T, p, socketId) ==
    LET entry == T.peers[p][socketId]
        newVal == ~(T.rmm[p][socketId] = "true")
        Set(pc) == IF pc = NoPc THEN pc
                   ELSE [pc EXCEPT !.muted = newVal, !.elMuted = newVal]
    IN IF entry = NoPc THEN T
       ELSE [T EXCEPT !.peers[p] = [q \in Procs |-> Set(@[q])],
                      !.rmm[p] = [q \in Procs |->
                                    IF @[q] = "absent" THEN "absent"
                                    ELSE IF newVal THEN "true" ELSE "false"]]

\* ------------------------------------------------------- toggleRemoteMute
toggleRemoteMute(T, p, socketId) ==
    LET entry == T.peers[p][socketId]
        newVal == ~(T.rmm[p][socketId] = "true")
    IN IF entry = NoPc THEN T
       ELSE [T EXCEPT !.peers[p][socketId].muted = newVal,
                      !.peers[p][socketId].elMuted = newVal,
                      !.rmm[p][socketId] = IF newVal THEN "true" ELSE "false"]

ToggleRemoteMute(p, q) ==
    /\ p \in clients
    /\ SetTable(toggleRemoteMute(Table, p, q))
    /\ ev' = Event("remoteMute", p, q,
                   IF peersRef[p][q] = NoPc THEN "noop" ELSE "ok")
    /\ UNCHANGED <<joined, localMuted, localStreamRef, trackEnabled, leaked,
                   joining, net, room, clients, dirty>>

\* ------------------------------------------------- room membership service
\* p disconnects from the room: its page is gone with everything it owned,
\* the relay forgets what was addressed to it and tells every other member
Notified(p) == {Msg("left", p, q) : q \in clients \ {p}}

Disconnect(p) ==
    /\ p \in clients
    /\ \A m \in Notified(p) : net[m] < MaxInFlight
    /\ InFlight + Cardinality(Notified(p)) <= MaxNet + Sum(net, {m \in Msgs : m.to = p})
    /\ room' = room \ {p}
    /\ clients' = clients \ {p}
    /\ joined' = [joined EXCEPT ![p] = FALSE]
    /\ localMuted' = [localMuted EXCEPT ![p] = FALSE]
    /\ remoteMutedMap' = [remoteMutedMap EXCEPT ![p] = [q \in Procs |-> "absent"]]
    /\ localStreamRef' = [localStreamRef EXCEPT ![p] = "null"]
    /\ trackEnabled' = [trackEnabled EXCEPT ![p] = TRUE]
    /\ leaked' = [leaked EXCEPT ![p] = 0]
    /\ peersRef' = [peersRef EXCEPT ![p] = [q \in Procs |-> NoPc]]
    /\ orphans' = BagFilter(orphans, LAMBDA o : o.owner # p)
    /\ joining' = [joining EXCEPT ![p] = 0]
    /\ tasks' = BagFilter(tasks, LAMBDA t : t.p # p)
    /\ net' = [m \in Msgs |-> IF m.to = p THEN 0
                              ELSE IF m \in Notified(p) THEN net[m] + 1
                              ELSE net[m]]
    /\ dirty' = [dirty EXCEPT ![p] = FALSE]
    /\ ev' = Event("disconnect", p, 0, "ok")

\* --------------------------------------------------------- specifications
\* signaling between the components of a room
Signaling ==
    \/ \E p \in Procs : JoinVoice(p)
    \/ \E p \in Procs : JoinGranted(p)
    \/ \E p \in Procs : JoinDenied(p)
    \/ \E p \in Procs : LeaveVoice(p)
    \/ \E p \in Procs : MembershipChange(p)
    \/ \E p \in Procs : MembershipEffect(p)
    \/ \E p \in Procs : \E q \in Procs \ {p} : HandleOffer(p, q)
    \/ \E p \in Procs : \E q \in Procs \ {p} : HandleAnswer(p, q)
    \/ \E p \in Procs : \E q \in Procs \ {p} : HandleUserLeft(p, q)
    \/ \E t \in BagToSet(tasks) : GumGranted(t)
    \/ \E t \in BagToSet(tasks) : GumDenied(t)
    \/ \E t \in BagToSet(tasks) : Created(t)
    \/ \E t \in BagToSet(tasks) : RemoteOfferSet(t)
    \/ \E t \in BagToSet(tasks) : LocalSet(t)
    \/ \E p \in Procs : Disconnect(p)

\* the mute controls and the candidate exchange
Controls ==
    \/ \E p \in Procs : ToggleLocalMute(p)
    \/ \E p \in Procs : \E q \in Procs \ {p} : ToggleRemoteMute(p, q)
    \/ \E p \in Procs : \E q \in Procs \ {p} : HandleIce(p, q)
    \/ \E p \in Procs : \E q \in Procs \ {p} : OnIceCandidate(p, q)

Next == Signaling
NextLocal == Signaling \/ Controls

Spec == Init /\ [][Next]_vars
SpecLocal == InitLocal /\ [][NextLocal]_vars

\* What the event loop, the relay and the device do without being asked:
\* a delivered message is handled, a settled promise resumes its handler,
\* a due effect runs.
Deliver(p, q) ==
    HandleOffer(p, q) \/ HandleAnswer(p, q) \/ HandleUserLeft(p, q)

Resume(t) ==
    GumGranted(t) \/ GumDenied(t) \/ Created(t) \/ RemoteOfferSet(t) \/ LocalSet(t)

Progress ==
    /\ WF_vars(\E p \in Procs : JoinGranted(p) \/ JoinDenied(p))
    /\ WF_vars(\E p \in Procs : MembershipEffect(p))
    /\ WF_vars(\E p \in Procs : \E q \in Procs \ {p} : Deliver(p, q))
    /\ WF_vars(\E t \in BagToSet(tasks) : Resume(t))

SpecFair == Spec /\ Progress

\* One call: participant 1 joins, the device grants every request, nobody
\* leaves; participant 2 only answers.
NextCall ==
    \/ JoinVoice(1)
    \/ JoinGranted(1)
    \/ \E p \in Procs : MembershipChange(p)
    \/ \E p \in Procs : MembershipEffect(p)
    \/ \E p \in Procs : \E q \in Procs \ {p} : HandleOffer(p, q)
    \/ \E p \in Procs : \E q \in Procs \ {p} : HandleAnswer(p, q)
    \/ \E t \in BagToSet(tasks) : GumGranted(t)
    \/ \E t \in BagToSet(tasks) : Created(t)
    \/ \E t \in BagToSet(tasks) : RemoteOfferSet(t)
    \/ \E t \in BagToSet(tasks) : LocalSet(t)
    \/ \E p \in Procs : ToggleLocalMute(p)
    \/ \E p \in Procs : \E q \in Procs \ {p} : ToggleRemoteMute(p, q)

ProgressCall ==
    /\ WF_vars(JoinGranted(1))
    /\ WF_vars(\E p \in Procs : MembershipEffect(p))
    /\ WF_vars(\E p \in Procs : \E q \in Procs \ {p} :
                  HandleOffer(p, q) \/ HandleAnswer(p, q))
    /\ WF_vars(\E t \in BagToSet(tasks) :
                  GumGranted(t) \/ Created(t) \/ RemoteOfferSet(t) \/ LocalSet(t))

SpecCall == Init /\ [][NextCall]_vars /\ ProgressCall

\* Building and negotiating sessions with promises that may reject: one
\* component among remote peers, which offer and answer at any time.
NextBuild ==
    \/ \E p \in Procs : JoinVoice(p)
    \/ \E p \in Procs : JoinGranted(p)
    \/ \E p \in Procs : JoinDenied(p)
    \/ \E p \in Procs : LeaveVoice(p)
    \/ \E p \in Procs : MembershipChange(p)
    \/ \E p \in Procs : MembershipEffect(p)
    \/ \E p \in Procs : \E q \in Procs \ {p} : HandleOffer(p, q)
    \/ \E p \in Procs : \E q \in Procs \ {p} : HandleAnswer(p, q)
    \/ \E t \in BagToSet(tasks) : GumGranted(t)
    \/ \E t \in BagToSet(tasks) : GumDenied(t)
    \/ \E t \in BagToSet(tasks) : Created(t)
    \/ \E t \in BagToSet(tasks) : RemoteOfferSet(t)
    \/ \E t \in BagToSet(tasks) : LocalSet(t)
    \/ \E t \in BagToSet(tasks) : Rejected(t)
    \/ \E p \in Procs : \E q \in Procs \ {p} : HandleOfferRejected(p, q)

SpecBuild == InitLocal /\ [][NextBuild]_vars

\* ------------------------------------------------------------- properties
Others(p) == Procs \ {p}
\* the transports of p that carry the tracks of the stream localStreamRef holds
CarryHeld(p) ==
    \/ \E q \in Procs : peersRef[p][q].tracks = "held"
    \/ \E t \in BagToSet(tasks) : t.p = p /\ t.pc.tracks = "held"

\* C1: in the state leaveVoice returns in, the Connection Table of the
\* participant has no entry, no stream is held and no transport carries live
\* tracks of the stream that was held; calling leaveVoice again in that state
\* changes nothing.
LeaveReleases ==
    ev.op = "leave" =>
        /\ Keys(Table, ev.p) = {}
        /\ \A q \in Procs : remoteMutedMap[ev.p][q] = "absent"
        /\ localStreamRef[ev.p] = "null"
        /\ ~CarryHeld(ev.p)
        /\ ~joined[ev.p]
        /\ leaveVoice(Table, ev.p) = Table
        /\ Fits(leaveVoice(Table, ev.p))

LeaveReleasesWitness ==
    /\ ev.op = "leave"
    /\ ev.out = "torn"

\* C2: a build request for a peer that has an entry in the Connection Table
\* returns that entry: the offer handler and the membership effect leave
\* every entry the table holds as it is, and an offer from a peer that has
\* an entry creates no transport and no audio element.
BuildReusesSession ==
    [][ev'.op \in {"offer", "effect", "users"} =>
        /\ \A q \in Keys(Table, ev'.p) : peersRef'[ev'.p][q] = peersRef[ev'.p][q]
        /\ (ev'.op = "offer" /\ ev'.q \in Keys(Table, ev'.p))
              => /\ OpenPcs(Table)' = OpenPcs(Table)
                 /\ orphans' = orphans]_vars

\* C3: cleanupPeer is total and idempotent in every state: it leaves the
\* table without the key, changes nothing for a key the table has not, and
\* never touches what belongs to another peer; the step that handles
\* USER_DISCONNECTED removes the key whether or not the participant is
\* joined and leaves joined, localMuted and the local stream alone.
TeardownTotal ==
    /\ [](\A p \in clients : \A id \in Others(p) :
            LET T1 == cleanupPeer(Table, p, id) IN
            /\ T1.peers[p][id] = NoPc
            /\ T1.rmm[p][id] = "absent"
            /\ cleanupPeer(T1, p, id) = T1
            /\ id \notin Keys(Table, p) => T1 = Table
            /\ T1.orphans = orphans
            /\ \A r \in Procs \ {p} : T1.peers[r] = peersRef[r]
                                     /\ T1.rmm[r] = remoteMutedMap[r]
            /\ \A r \in Procs \ {id} : /\ T1.peers[p][r] = peersRef[p][r]
                                      /\ T1.rmm[p][r] = remoteMutedMap[p][r]
            /\ \A t \in BagToSet(tasks) :
                  (t.p # p \/ t.q # id) =>
                      /\ t \in BagToSet(T1.tasks)
                      /\ T1.tasks[t] = tasks[t])
    /\ [][ev'.op = "left" =>
            /\ peersRef'[ev'.p][ev'.q] = NoPc
            /\ \A r \in Procs \ {ev'.q} :
                  /\ peersRef'[ev'.p][r] = peersRef[ev'.p][r]
                  /\ remoteMutedMap'[ev'.p][r] = remoteMutedMap[ev'.p][r]
            /\ UNCHANGED <<joined, localMuted, localStreamRef, trackEnabled,
                           leaked, orphans, joining>>]_vars

\* a departure handled by a participant that is not joined, with an entry
\* of another peer in its table
TeardownTotalWitness ==
    /\ ev.op = "left"
    /\ ev.out = "ok"
    /\ ~joined[ev.p]
    /\ Keys(Table, ev.p) # {}

\* C4: no participant has two transports that are not closed and are both
\* in the middle of an offer/answer exchange with the same remote peer.
OneNegotiationPerPeer ==
    \A p \in clients : \A q \in Others(p) :
        LET Negotiating(sig) == sig \in {"have-local-offer", "have-remote-offer"}
        IN (IF Negotiating(peersRef[p][q].sig) THEN 1 ELSE 0)
           + BagCardinality(BagFilter(orphans, LAMBDA o :
                 o.owner = p /\ o.remote = q /\ Negotiating(o.sig)))
           + BagCardinality(BagFilter(tasks, LAMBDA t :
                 ~t.reg /\ t.p = p /\ t.q = q /\ Negotiating(t.pc.sig)))
           <= 1

\* C5: an answer or a candidate from a peer that has no entry is dropped:
\* no entry appears, the table, the transports and the local session state
\* stay as they are, and nothing is handed to the relay.
StaleSignalDropped ==
    [][(ev'.op \in {"answer", "ice"} /\ ev'.q \notin Keys(Table, ev'.p)) =>
        /\ ev'.out = "drop"
        /\ \A m \in Msgs : net'[m] <= net[m]
        /\ UNCHANGED <<peersRef, remoteMutedMap, tasks, orphans, joined,
                       localMuted, localStreamRef, trackEnabled, leaked,
                       joining, dirty>>]_vars

\* a stale candidate dropped by a participant that holds another session
StaleSignalDroppedWitness ==
    /\ ev.op \in {"answer", "ice"}
    /\ ev.out = "drop"
    /\ Keys(Table, ev.p) # {}
    /\ joined[ev.p]

\* C6: toggleRemoteMute of a peer that has an entry flips the mute flag of
\* that entry and of its audio element and nothing else; for a peer without
\* an entry it changes nothing; it never hands a message to the relay.
RemoteMuteLocalOnly ==
    [][ev'.op = "remoteMute" =>
        LET p == ev'.p
            q == ev'.q
            old == peersRef[p][q]
        IN /\ IF q \in Keys(Table, p)
              THEN /\ peersRef' = [peersRef EXCEPT ![p][q] =
                                     [old EXCEPT !.muted = ~old.muted,
                                                 !.elMuted = ~old.muted]]
                   /\ remoteMutedMap' = [remoteMutedMap EXCEPT ![p][q] =
                                     IF old.muted THEN "false" ELSE "true"]
              ELSE UNCHANGED <<peersRef, remoteMutedMap>>
           /\ UNCHANGED <<tasks, orphans, net, joined, localMuted,
                          localStreamRef, trackEnabled, leaked, joining>>]_vars

\* a peer unmuted again while another peer of the table stays muted
RemoteMuteLocalOnlyWitness ==
    /\ ev.op = "remoteMute"
    /\ ev.out = "ok"
    /\ ~peersRef[ev.p][ev.q].muted
    /\ \E r \in Keys(Table, ev.p) : peersRef[ev.p][r].muted

\* C9: joinVoice whose getUserMedia is refused changes nothing: joined keeps
\* its value (false for a participant that was not joined), localMuted and
\* the held stream keep theirs, and the table, its transports and the
\* suspended handlers are as they were.
DeniedJoinKeepsState ==
    [][(ev'.op = "joinResumed" /\ ev'.out = "err") =>
        /\ ~joined[ev'.p] => ~joined'[ev'.p]
        /\ UNCHANGED <<joined, localMuted, localStreamRef, trackEnabled,
                       leaked, peersRef, remoteMutedMap, orphans, tasks, net>>]_vars

\* a refusal met by a participant that is not joined and answers a peer
\* with a muted microphone
DeniedJoinKeepsStateWitness ==
    /\ ev.op = "joinResumed"
    /\ ev.out = "err"
    /\ ~joined[ev.p]
    /\ Keys(Table, ev.p) # {}
    /\ localStreamRef[ev.p] = "live"
    /\ localMuted[ev.p]

\* C10: joinVoice called while the participant is joined, while an earlier
\* joinVoice awaits the device, or while localStreamRef holds a stream asks
\* the device for nothing; and a joinVoice that resumes never replaces a
\* stream localStreamRef holds.
JoinAcquiresOnce ==
    [][/\ (/\ ev'.op = "join"
           /\ \/ joined[ev'.p]
              \/ joining[ev'.p] > 0
              \/ localStreamRef[ev'.p] = "live")
          => joining' = joining
       /\ (ev'.op = "joinResumed" /\ localStreamRef[ev'.p] = "live")
          => leaked' = leaked]_vars

\* C7: once a participant that had sessions leaves voice while a peer holds
\* an entry for it, that peer eventually tears its entry down, so that
\* neither table holds an entry for the other.
LeavePropagates ==
    \A a \in Procs : \A b \in Procs \ {a} :
        (ev = Event("leave", a, 0, "torn") /\ b \in clients /\ a \in Keys(Table, b))
            ~> (a \notin Keys(Table, b) /\ b \notin Keys(Table, a))

\* C8: when participant 1 joins and participant 2 is in the room, every
\* offer goes from 1 to 2, every answer from 2 to 1, and eventually the
\* transports the two hold for each other are both stable.
CallEstablished ==
    /\ joined[1] ~> (peersRef[1][2].sig = "stable" /\ peersRef[2][1].sig = "stable")
    /\ [][ev'.op = "sent" =>
            \/ ev' = Event("sent", 1, 2, "offer")
            \/ ev' = Event("sent", 2, 1, "answer")]_vars

CallEstablishedWitness ==
    /\ ev = Event("answer", 1, 2, "ok")
    /\ joined[1]
    /\ peersRef[1][2].sig = "stable"
    /\ peersRef[2][1].sig = "stable"
    /\ peersRef[1][2].tracks = "held"
    /\ peersRef[2][1].tracks = "held"

\* C11: toggleLocalMute called while joined is false changes neither
\* localMuted nor the enabled state of a local track; called while joined is
\* true it flips localMuted and the enabled state of the tracks of the held
\* stream.
LocalMuteNeedsJoined ==
    [][ev'.op = "localMute" =>
        IF joined[ev'.p]
        THEN /\ localStreamRef[ev'.p] = "live"
             /\ localMuted'[ev'.p] = ~localMuted[ev'.p]
             /\ trackEnabled'[ev'.p] = ~trackEnabled[ev'.p]
        ELSE UNCHANGED <<localMuted, trackEnabled>>]_vars

\* C12: once the departure of q has been handled by p and every handler of
\* p that was suspended on a session for q has finished, the table of p has
\* no entry for q.
TeardownBeatsBuild ==
    \A p \in clients : \A q \in Procs \ (room \cup {p}) :
        (/\ net[Msg("left", q, p)] = 0
         /\ \A t \in BagToSet(tasks) : ~(t.p = p /\ t.q = q))
            => q \notin Keys(Table, p)

\* C13: when the membership effect fails for a peer, the transport it
\* created for that peer is closed and its audio element removed, so that
\* no transport is left that nothing references, the peer has no entry in
\* the table and in the mute map, and no handler is left that would send
\* it an offer.
FailedOfferTornDown ==
    [][(\/ ev'.op = "rejected" /\ ev'.out = "offer"
        \/ ev'.op = "built" /\ ev'.out = "err"
             /\ \E t \in BagToSet(tasks) :
                   t.k = "offer" /\ t.p = ev'.p /\ t.q = ev'.q /\ t.at = "gum") =>
        /\ peersRef'[ev'.p][ev'.q] = NoPc
        /\ remoteMutedMap'[ev'.p][ev'.q] = "absent"
        /\ OpenPcs(Table)' < OpenPcs(Table)
        /\ orphans' = orphans
        /\ net' = net]_vars

\* C14: a build whose getUserMedia is refused registers nothing: the table
\* and the mute map are as they were, with no entry for the peer if there
\* was none; and every entry of the table has the local tracks attached.
NoPartialRegistration ==
    /\ [](\A p \in clients : \A q \in Keys(Table, p) :
             /\ peersRef[p][q].tracks # "none"
             /\ remoteMutedMap[p][q] # "absent")
    /\ [][(ev'.op = "built" /\ ev'.out = "err") =>
             /\ UNCHANGED <<peersRef, remoteMutedMap>>
             /\ ev'.q \notin Keys(Table, ev'.p) =>
                   /\ peersRef'[ev'.p][ev'.q] = NoPc
                   /\ remoteMutedMap'[ev'.p][ev'.q] = "absent"]_vars

\* a refused build for one peer in a table that holds the session of another
NoPartialRegistrationWitness ==
    /\ ev.op = "built"
    /\ ev.out = "err"
    /\ ev.q \notin Keys(Table, ev.p)
    /\ localStreamRef[ev.p] = "null"

\* C15: a handler that will send an offer is started only by the membership
\* effect of a joined participant, for another participant that has no
\* entry, and one per such peer; and an offer is sent only by a participant
\* that is joined, to a participant other than itself.
InitiationRule ==
    [][/\ \A p \in clients : \A q \in Procs :
            LET Offering(ts) == BagCardinality(BagFilter(ts, LAMBDA t :
                                    t.k = "offer" /\ t.p = p /\ t.q = q))
            IN Offering(tasks') > Offering(tasks) =>
                  /\ ev'.op \in {"effect", "users"}
                  /\ ev'.p = p
                  /\ joined[p]
                  /\ q # p
                  /\ q \notin Keys(Table, p)
                  /\ Offering(tasks') = Offering(tasks) + 1
       /\ (ev'.op = "sent" /\ ev'.out = "offer") =>
             /\ joined[ev'.p]
             /\ ev'.q # ev'.p
             /\ \E t \in BagToSet(tasks) :
                   t.k = "offer" /\ t.p = ev'.p /\ t.q = ev'.q]_vars

\* C16: no orphaned transports: every transport that was created and not
\* closed is the transport of the table entry for its peer, so no open
\* transport is outside the table and no handler works on a transport that
\* the table no longer holds.
NoOrphans ==
    /\ orphans = EmptyBag
    /\ \A t \in BagToSet(tasks) : t.at # "gum" => t.reg

\* C17: microphone only while joined: whenever a participant is not joined
\* and has no join in flight, it holds no local stream and its table of
\* peer sessions is empty.
MicOnlyWhileJoined ==
    \A p \in Procs :
        (~joined[p] /\ joining[p] = 0) =>
            /\ localStreamRef[p] = "null"
            /\ Keys(Table, p) = {}

\* C18: no leaked capture: a participant never has more than one acquired
\* stream live, and right after its leave every stream it ever acquired is
\* stopped.
NoLeakedCapture ==
    \A p \in Procs :
        /\ leaked[p] + (IF localStreamRef[p] = "live" THEN 1 ELSE 0) <= 1
        /\ (ev.op = "leave" /\ ev.p = p) =>
              /\ leaked[p] = 0
              /\ localStreamRef[p] = "null"

\* C19: the local mute flag agrees with the tracks: whenever a local stream
\* is held, localMuted is true exactly when the held stream's tracks are
\* disabled.
LocalMuteAgrees ==
    \A p \in Procs :
        localStreamRef[p] = "live" => (localMuted[p] <=> ~trackEnabled[p])

\* C20: sent audio comes from the held stream: the local tracks attached to
\* the transport of every table entry are tracks of the stream the
\* participant currently holds.
SentFromHeldStream ==
    \A p \in Procs : \A q \in Keys(Table, p) :
        /\ localStreamRef[p] = "live"
        /\ peersRef[p][q].tracks = "held"
====
